---- MODULE Spec2Model ----
(***************************************************************************)
(* The iOS signing service of src/app.py: the POST /sign handler           *)
(* (sign_ipa), the GET /download/<filename> handler (download_file) and    *)
(* the helpers they call, over a shared flat artifact directory (/tmp), a  *)
(* wall clock and per-request working directories.                         *)
(*                                                                         *)
(* Python strings are TLA+ strings; str.endswith, str.join, str.replace    *)
(* and the f-strings are computed on them.  Python's None is the string    *)
(* None below, which is also what str(None) yields inside an f-string.     *)
(***************************************************************************)
EXTENDS Integers, Sequences, FiniteSets, TLC

\* Number of /sign requests the server handles (each on its own worker).
MaxRequests == 2
\* Last value of the wall clock, in whole seconds since the start.
MaxTime == 1

Requests == 1..MaxRequests

None == "None"

\* ------------------------------------------------------------------------
\* Python string helpers
\* ------------------------------------------------------------------------

\* str.endswith(suffix)
endswith(s, suffix) ==
    /\ Len(s) >= Len(suffix)
    /\ SubSeq(s, Len(s) - Len(suffix) + 1, Len(s)) = suffix

\* str.startswith(prefix)
startswith(s, prefix) ==
    /\ Len(s) >= Len(prefix)
    /\ SubSeq(s, 1, Len(prefix)) = prefix

\* sub in s
Contains(s, sub) ==
    \E i \in 1..(Len(s) - Len(sub) + 1) : SubSeq(s, i, i + Len(sub) - 1) = sub

\* ' '.join(parts)
RECURSIVE join(_)
join(parts) ==
    IF parts = <<>> THEN ""
    ELSE IF Len(parts) = 1 THEN parts[1]
    ELSE parts[1] \o " " \o join(Tail(parts))

\* Python truthiness of an optional string: None and "" are falsy.
Truthy(x) == x # None /\ x # ""

\* x or y
Or(x, y) == IF Truthy(x) THEN x ELSE y

\* ------------------------------------------------------------------------
\* Uploaded files and archives
\* ------------------------------------------------------------------------

\* The Info.plist of the first application directory of an archive.
NoPlist == [exists |-> FALSE, wellFormed |-> FALSE, CFBundleIdentifier |-> None,
            CFBundleDisplayName |-> None, CFBundleName |-> None]
MalformedPlist == [NoPlist EXCEPT !.exists = TRUE]
DemoPlist == [exists |-> TRUE, wellFormed |-> TRUE,
              CFBundleIdentifier |-> "com.example.demo",
              CFBundleDisplayName |-> "Demo", CFBundleName |-> "DemoInternal"]
BarePlist == [exists |-> TRUE, wellFormed |-> TRUE, CFBundleIdentifier |-> None,
              CFBundleDisplayName |-> "", CFBundleName |-> "Bare"]

\* The bytes of an uploaded archive: whether it is a zip file, whether it has
\* a top-level Payload directory, the listing of Payload, and the Info.plist
\* of the first .app entry of that listing.
Archive(isZip, hasPayload, payload, plist) ==
    [isZip |-> isZip, hasPayload |-> hasPayload, payload |-> payload, plist |-> plist]

NotAZip == Archive(FALSE, FALSE, <<>>, NoPlist)
DemoArchive == Archive(TRUE, TRUE, <<"Demo.app">>, DemoPlist)
BareArchive == Archive(TRUE, TRUE, <<"readme.txt", "Bare.app">>, BarePlist)

FailingArchives ==
    { NotAZip,
      Archive(TRUE, FALSE, <<>>, NoPlist),
      Archive(TRUE, TRUE, <<"readme.txt">>, NoPlist),
      Archive(TRUE, TRUE, <<"Demo.app">>, NoPlist),
      Archive(TRUE, TRUE, <<"Demo.app">>, MalformedPlist) }

Archives == FailingArchives \cup {DemoArchive, BareArchive}

\* A werkzeug FileStorage of request.files; present = FALSE is the value
\* request.files.get returns for a field the request does not carry.
FileStorage(filename, content) ==
    [present |-> TRUE, filename |-> filename, content |-> content]
NoFile == [present |-> FALSE, filename |-> "", content |-> NotAZip]

\* bool(FileStorage) is bool(filename); bool(None) is False.
FileTruthy(f) == f.present /\ f.filename # ""

BaseRequest ==
    [ipa |-> FileStorage("app.ipa", DemoArchive),
     p12 |-> FileStorage("cert.p12", NotAZip),
     provision |-> FileStorage("dev.mobileprovision", NotAZip),
     password |-> "hunter2",
     url_root |-> "http://signer.example/"]

\* The requests the clients send: the base request with one part changed, and
\* one with another password sent over https.
RequestInputs ==
    {BaseRequest}
    \cup {[BaseRequest EXCEPT !.ipa = NoFile, !.p12 = NoFile, !.provision = NoFile]}
    \cup {[BaseRequest EXCEPT !.ipa = f] :
            f \in {NoFile, FileStorage("", DemoArchive), FileStorage("app.IPA", DemoArchive)}
                  \cup {FileStorage("app.ipa", a) : a \in Archives}}
    \cup {[BaseRequest EXCEPT !.p12 = f] :
            f \in {NoFile, FileStorage("", NotAZip), FileStorage("cert.pfx", NotAZip)}}
    \cup {[BaseRequest EXCEPT !.provision = f] :
            f \in {NoFile, FileStorage("", NotAZip), FileStorage("dev.provision", NotAZip)}}
    \cup {[BaseRequest EXCEPT !.password = p] : p \in {None, ""}}
    \cup {[BaseRequest EXCEPT !.password = "s3cret", !.url_root = "https://signer.example/"]}

NoRequest == [BaseRequest EXCEPT !.ipa = NoFile, !.p12 = NoFile, !.provision = NoFile,
                                 !.password = None, !.url_root = ""]

\* ------------------------------------------------------------------------
\* Pure helpers of app.py
\* ------------------------------------------------------------------------

\* str.replace(old, new): every occurrence, left to right.
RECURSIVE replace(_, _, _)
replace(s, old, new) ==
    IF Len(s) < Len(old) THEN s
    ELSE IF startswith(s, old)
         THEN new \o replace(SubSeq(s, Len(old) + 1, Len(s)), old, new)
         ELSE SubSeq(s, 1, 1) \o replace(SubSeq(s, 2, Len(s)), old, new)

apps_of(payload) == SelectSeq(payload, LAMBDA d : endswith(d, ".app"))

\* extract_bundle_and_name with a missing or unreadable Info.plist read as an
\* empty one.
extract_tolerant(archive) ==
    LET fail(msg) == [raised |-> msg, bundle_id |-> None, app_name |-> None]
        plist == archive.plist
        ok == plist.exists /\ plist.wellFormed
    IN  IF ~archive.isZip \/ ~archive.hasPayload THEN fail("File is not a zip file")
        ELSE IF SelectSeq(archive.payload, LAMBDA d : endswith(d, ".app")) = <<>>
             THEN [raised |-> None, bundle_id |-> None, app_name |-> "UnknownApp"]
        ELSE [raised |-> None,
              bundle_id |-> IF ok THEN plist.CFBundleIdentifier ELSE None,
              app_name |-> IF ok THEN Or(Or(plist.CFBundleDisplayName, plist.CFBundleName),
                                         "UnknownApp")
                           ELSE "UnknownApp"]

\* extract_bundle_and_name: raised is the message of the exception the body
\* raises, or None when it returns (bundle_id, app_name).
extract_bundle_and_name(archive) ==
    LET fail(msg) == [raised |-> msg, bundle_id |-> None, app_name |-> None]
        plist == archive.plist
    IN  IF ~archive.isZip THEN fail("File is not a zip file")
        ELSE IF ~archive.hasPayload
             THEN fail("[Errno 2] No such file or directory: Payload")
        ELSE IF apps_of(archive.payload) = <<>>
             THEN fail("No .app folder found in Payload")
        ELSE IF ~plist.exists
             THEN fail("[Errno 2] No such file or directory: Info.plist")
        ELSE IF ~plist.wellFormed THEN fail("Invalid file")
        ELSE [raised |-> None,
              bundle_id |-> plist.CFBundleIdentifier,
              app_name |-> Or(Or(plist.CFBundleDisplayName, plist.CFBundleName),
                              "UnknownApp")]

\* generate_manifest: the fixed plist text around the three interpolations.
generate_manifest(bundle_id, app_name, ipa_url) ==
    "<plist><dict><key>items</key><array><dict><key>assets</key><array><dict>"
    \o "<key>kind</key><string>software-package</string><key>url</key><string>"
    \o ipa_url
    \o "</string></dict></array><key>metadata</key><dict>"
    \o "<key>bundle-identifier</key><string>" \o bundle_id
    \o "</string><key>bundle-version</key><string>1.0</string>"
    \o "<key>kind</key><string>software</string><key>title</key><string>"
    \o app_name \o "</string></dict></dict></array></dict></plist>"

\* ------------------------------------------------------------------------
\* Responses
\* ------------------------------------------------------------------------

NoAppInfo == [name |-> None, bundle_id |-> None]

\* jsonify({'error': ..., 'details': ...}), status; details is None when the
\* body has no such key.
ErrorResponse(status, error, details) ==
    [status |-> status, success |-> FALSE, error |-> error, details |-> details,
     itms_services_url |-> None, manifest_url |-> None, ipa_url |-> None,
     app_info |-> NoAppInfo]

\* The body of the 200 response of sign_ipa (its constant message and note
\* and the size in megabytes are left out).
OkResponse(itms, manifest_url, ipa_url, name, bundle_id) ==
    [status |-> 200, success |-> TRUE, error |-> None, details |-> None,
     itms_services_url |-> itms, manifest_url |-> manifest_url, ipa_url |-> ipa_url,
     app_info |-> [name |-> name, bundle_id |-> bundle_id]]

\* No response sent yet.
NoResponse == ErrorResponse(0, None, None)

\* ------------------------------------------------------------------------
\* State
\* ------------------------------------------------------------------------

VARIABLES
    pc,              \* pc[r]: where request r's sign_ipa call stands
    req,             \* req[r]: the request's files and form
    tmpdir_path,     \* tmpdir_path[r]: the local of that name, None before mkdtemp
    appinfo,         \* appinfo[r]: the locals bundle_id and app_name
    output,          \* output[r]: bytes the signer wrote to output_path, None if none
    signed_filename, \* signed_filename[r]: the local of that name
    resp,            \* resp[r]: the response sent
    log,             \* log[r]: what this call wrote to app.logger, in order
    rmtreeCalls,     \* rmtreeCalls[r]: calls of shutil.rmtree(tmpdir_path)
    zsignCalls,      \* zsignCalls[r]: calls of subprocess.check_output(cmd)
    signer,          \* signer[r]: how the signer process of this call ended
    io_error,        \* io_error[r]: the system call of this call that raised, or None
    written,         \* written[r]: the files of /tmp this call created or overwrote
    tmpdirs,         \* the working directories that exist
    permanent,       \* the files of /tmp: filename -> bytes
    time,            \* int(time.time())
    dl               \* the last response of download_file

vars == <<pc, req, tmpdir_path, appinfo, output, signed_filename, resp, log,
          rmtreeCalls, zsignCalls, signer, io_error, written, tmpdirs, permanent,
          time, dl>>

reqLocals == <<req, tmpdir_path, appinfo, output, signed_filename>>

\* The signer has not run.
NotRun == [ran |-> FALSE, returncode |-> 0, output |-> None]
\* The signer ran and exited with this status, having printed this.
Exited(returncode, out) == [ran |-> TRUE, returncode |-> returncode, output |-> out]

NoDownload == [filename |-> None, status |-> 0, mimetype |-> None,
               as_attachment |-> FALSE, content |-> None]

\* /tmp is the system's temporary directory: it holds files of other programs.
ForeignFiles == [f \in {"notes.txt"} |-> "meeting notes"]

Init ==
    /\ pc = [r \in Requests |-> "idle"]
    /\ req = [r \in Requests |-> NoRequest]
    /\ tmpdir_path = [r \in Requests |-> None]
    /\ appinfo = [r \in Requests |-> NoAppInfo]
    /\ output = [r \in Requests |-> None]
    /\ signed_filename = [r \in Requests |-> None]
    /\ resp = [r \in Requests |-> NoResponse]
    /\ log = [r \in Requests |-> <<>>]
    /\ rmtreeCalls = [r \in Requests |-> 0]
    /\ zsignCalls = [r \in Requests |-> 0]
    /\ signer = [r \in Requests |-> NotRun]
    /\ io_error = [r \in Requests |-> None]
    /\ written = [r \in Requests |-> {}]
    /\ tmpdirs = {}
    /\ permanent = ForeignFiles
    /\ time = 0
    /\ dl = NoDownload

\* ------------------------------------------------------------------------
\* POST /sign: sign_ipa
\* ------------------------------------------------------------------------

ZSIGN_PATH == "./zsign"

\* The checks of sign_ipa with the suffixes compared without regard to case
\* and the certificate's suffix not compared at all.
validation_lenient(request) ==
    IF ~(request.ipa.present \/ request.p12.present \/ request.provision.present)
    THEN "No files uploaded"
    ELSE IF ~(FileTruthy(request.ipa) /\ FileTruthy(request.p12)
              /\ FileTruthy(request.provision) /\ Truthy(request.password))
    THEN "Missing one or more required fields"
    ELSE IF ~(endswith(request.ipa.filename, ".ipa") \/ endswith(request.ipa.filename, ".IPA"))
    THEN "IPA file must have .ipa extension"
    ELSE IF ~endswith(request.provision.filename, ".mobileprovision")
    THEN "Provisioning profile must have .mobileprovision extension"
    ELSE None

\* The checks of sign_ipa before it creates anything: the error of the 400
\* response, or None when the request passes.
validation_error(request) ==
    LET ipa == request.ipa
        p12 == request.p12
        provision == request.provision
        password == request.password
    IN  IF ~(ipa.present \/ p12.present \/ provision.present)
        THEN "No files uploaded"
        ELSE IF ~(FileTruthy(ipa) /\ FileTruthy(p12) /\ FileTruthy(provision)
                  /\ Truthy(password))
        THEN "Missing one or more required fields"
        ELSE IF ~FileTruthy(ipa) \/ ipa.filename = ""
        THEN "No IPA file selected"
        ELSE IF ~FileTruthy(p12) \/ p12.filename = ""
        THEN "No P12 certificate selected"
        ELSE IF ~FileTruthy(provision) \/ provision.filename = ""
        THEN "No provisioning profile selected"
        ELSE IF ~endswith(ipa.filename, ".ipa")
        THEN "IPA file must have .ipa extension"
        ELSE IF ~endswith(p12.filename, ".p12")
        THEN "Certificate must have .p12 extension"
        ELSE IF ~endswith(provision.filename, ".mobileprovision")
        THEN "Provisioning profile must have .mobileprovision extension"
        ELSE None

\* What the cleanup blocks read and write: the existing working directories,
\* this request's count of rmtree calls and its log.
CS(r, newlog) == [dirs |-> tmpdirs, calls |-> rmtreeCalls[r], log |-> newlog]

\* if tmpdir_path and os.path.exists(tmpdir_path): try rmtree, except: warn.
\* fails: whether this rmtree call raises; the directory then still exists.
rmtree_block(cs, path, fails, okmsg, failmsg) ==
    IF path # None /\ path \in cs.dirs
    THEN [dirs |-> IF fails THEN cs.dirs ELSE cs.dirs \ {path},
          calls |-> cs.calls + 1,
          log |-> Append(cs.log, IF fails THEN failmsg ELSE okmsg \o path)]
    ELSE cs

\* The finally: clause of the inner try.
finally_block(cs, path, fails) ==
    rmtree_block(cs, path, fails, "Cleaned up temporary directory: ",
                 "Failed to cleanup temporary directory: [Errno 13] Permission denied")

\* The except Exception: clause of the outer try, up to its return.
except_block(cs, path, msg, fails) ==
    rmtree_block([cs EXCEPT !.log = Append(@, "Unexpected error in sign_ipa: " \o msg)],
                 path, fails, "Cleaned up temporary directory after error: ",
                 "Failed to cleanup temporary directory after error: [Errno 13] Permission denied")

\* The call ends with this response and these directories, count and log.
Finish(r, response, cs) ==
    /\ pc' = [pc EXCEPT ![r] = "done"]
    /\ resp' = [resp EXCEPT ![r] = response]
    /\ tmpdirs' = cs.dirs
    /\ rmtreeCalls' = [rmtreeCalls EXCEPT ![r] = cs.calls]
    /\ log' = [log EXCEPT ![r] = cs.log]

\* A return statement inside the inner try: the finally clause runs.
Return(r, response, newlog) ==
    \E fails \in BOOLEAN :
        Finish(r, response, finally_block(CS(r, newlog), tmpdir_path[r], fails))

\* An exception leaving the inner try: the finally clause runs, then the
\* except clause of the outer try answers 500.
Raise(r, msg, newlog) ==
    \E fails1 \in BOOLEAN, fails2 \in BOOLEAN :
        Finish(r, ErrorResponse(500, "Unexpected error occurred", msg),
               except_block(finally_block(CS(r, newlog), tmpdir_path[r], fails1),
                            tmpdir_path[r], msg, fails2))

\* Lines 178-209: receive a request and validate it.
Validate(r) ==
    /\ pc[r] = "idle"
    /\ \E inp \in RequestInputs :
        LET err == validation_error(inp)
            newlog == Append(log[r], "Received sign request")
        IN  /\ req' = [req EXCEPT ![r] = inp]
            /\ IF err # None
               THEN Finish(r, ErrorResponse(400, err, None), CS(r, newlog))
               ELSE /\ pc' = [pc EXCEPT ![r] = "stage"]
                    /\ log' = [log EXCEPT ![r] = newlog]
                    /\ UNCHANGED <<resp, tmpdirs, rmtreeCalls>>
    /\ UNCHANGED <<tmpdir_path, appinfo, output, signed_filename, zsignCalls, signer,
                   io_error, written, permanent, time, dl>>

\* tempfile.mkdtemp(prefix='ios_signer_'): a name no other call gets.
mkdtemp(r) == "/tmp/ios_signer_" \o ToString(r)

\* Lines 211-231: create the working directory and save the three uploads.
Stage(r) ==
    /\ pc[r] = "stage"
    /\ \/ \* mkdtemp raises: nothing was created, the outer except answers
          /\ Finish(r, ErrorResponse(500, "Unexpected error occurred",
                                     "[Errno 28] No space left on device"),
                    except_block(CS(r, log[r]), tmpdir_path[r],
                                 "[Errno 28] No space left on device", FALSE))
          /\ io_error' = [io_error EXCEPT ![r] = "mkdtemp"]
          /\ UNCHANGED tmpdir_path
       \/ \* mkdtemp returns
          LET path == mkdtemp(r)
              created == Append(log[r], "Created temporary directory: " \o path)
              saving == Append(created, "Saving uploaded files...")
          IN  /\ tmpdir_path' = [tmpdir_path EXCEPT ![r] = path]
              /\ \/ /\ pc' = [pc EXCEPT ![r] = "extract"]
                    /\ tmpdirs' = tmpdirs \cup {path}
                    /\ log' = [log EXCEPT ![r] = Append(saving, "Files saved successfully")]
                    /\ UNCHANGED <<resp, rmtreeCalls, io_error>>
                 \/ \E fails \in BOOLEAN :
                      LET msg == "[Errno 28] No space left on device"
                      IN  /\ io_error' = [io_error EXCEPT ![r] = "save"]
                          /\ Finish(r, ErrorResponse(500, "Failed to save uploaded files", msg),
                                    finally_block(
                                     [dirs |-> tmpdirs \cup {path},
                                      calls |-> rmtreeCalls[r],
                                      log |-> Append(saving,
                                                "Failed to save uploaded files: " \o msg)],
                                     path, fails))
    /\ UNCHANGED <<req, appinfo, output, signed_filename, zsignCalls, signer, written,
                   permanent, time, dl>>

\* Lines 233-238: read the identifier and the name from the staged archive.
Extract(r) ==
    /\ pc[r] = "extract"
    /\ LET res == extract_bundle_and_name(req[r].ipa.content)
       IN  IF res.raised # None
           THEN /\ Return(r, ErrorResponse(500, "Failed to extract bundle id and app name",
                                           res.raised), log[r])
                /\ UNCHANGED appinfo
           ELSE /\ appinfo' = [appinfo EXCEPT ![r] =
                                  [name |-> res.app_name, bundle_id |-> res.bundle_id]]
                /\ pc' = [pc EXCEPT ![r] = "sign"]
                /\ log' = [log EXCEPT ![r] = Append(@, "Extracted app info: "
                              \o res.app_name \o " (" \o res.bundle_id \o ")")]
                /\ UNCHANGED <<resp, tmpdirs, rmtreeCalls>>
    /\ UNCHANGED <<req, tmpdir_path, output, signed_filename, zsignCalls, signer,
                   io_error, written, permanent, time, dl>>

\* The argument list of the signer.
cmd(r) ==
    <<ZSIGN_PATH,
      "-k", tmpdir_path[r] \o "/cert.p12",
      "-p", req[r].password,
      "-m", tmpdir_path[r] \o "/profile.mobileprovision",
      "-o", tmpdir_path[r] \o "/signed.ipa",
      tmpdir_path[r] \o "/input.ipa">>

\* The debug line written before the signer runs.
zsign_log_line(c) ==
    "Running zsign command: " \o join(SubSeq(c, 1, Len(c) - 1))
    \o " [password hidden] " \o c[Len(c)]

\* error_msg with an empty capture replaced by the fallback text.
error_msg_fallback(e_output) == IF e_output = "" THEN "Unknown zsign error" ELSE e_output

\* error_msg of the CalledProcessError branch; with text=True e.output is a str.
error_msg(e_output) == e_output

\* What the signer prints, and the bytes it writes to output_path.
SignerOutputsOk == {">>> Signed OK!"}
SignerOutputsFail == {"", ">>> Invalid certificate"}
SignedContents == {"signed-bytes-1", "signed-bytes-2"}

\* Lines 240-257: run the signer once.
Sign(r) ==
    /\ pc[r] = "sign"
    /\ zsignCalls' = [zsignCalls EXCEPT ![r] = @ + 1]
    /\ LET running == Append(log[r], zsign_log_line(cmd(r)))
       IN  \/ \* exit status 0
              \E result \in SignerOutputsOk, bytes \in SignedContents :
                 /\ output' = [output EXCEPT ![r] = bytes]
                 /\ signer' = [signer EXCEPT ![r] = Exited(0, result)]
                 /\ pc' = [pc EXCEPT ![r] = "publish"]
                 /\ log' = [log EXCEPT ![r] = Append(running, "zsign output: " \o result)]
                 /\ UNCHANGED <<resp, tmpdirs, rmtreeCalls, io_error>>
           \/ \* CalledProcessError: nonzero exit status
              \E e_output \in SignerOutputsFail :
                 /\ Return(r, ErrorResponse(500, "Signing failed", error_msg(e_output)),
                           Append(running, "zsign failed with exit code 1: " \o e_output))
                 /\ signer' = [signer EXCEPT ![r] = Exited(1, e_output)]
                 /\ UNCHANGED <<output, io_error>>
           \/ \* the executable cannot be started: OSError, not CalledProcessError
              /\ Raise(r, "[Errno 2] No such file or directory: " \o ZSIGN_PATH, running)
              /\ io_error' = [io_error EXCEPT ![r] = "exec"]
              /\ UNCHANGED <<output, signer>>
    /\ UNCHANGED <<req, tmpdir_path, appinfo, signed_filename, written, permanent, time, dl>>

\* ------------------------------------------------------------------------
\* Publishing into /tmp
\* ------------------------------------------------------------------------

\* write_file with the manifest written to manifest_path, inside the working
\* directory, instead of /tmp.
write_file_workdir(files, filename, bytes) ==
    IF startswith(filename, "manifest_") THEN files
    ELSE [f \in DOMAIN files \cup {filename} |-> IF f = filename THEN bytes ELSE files[f]]

\* Writing bytes to /tmp/<filename>: the file is created or overwritten.
write_file(files, filename, bytes) ==
    [f \in DOMAIN files \cup {filename} |-> IF f = filename THEN bytes ELSE files[f]]

\* f"signed_{bundle_id}_{int(time.time())}.ipa"
signed_name(bundle_id, now) == "signed_" \o bundle_id \o "_" \o ToString(now) \o ".ipa"

\* f"manifest_{bundle_id}_{int(time.time())}.plist"
manifest_name(bundle_id, now) == "manifest_" \o bundle_id \o "_" \o ToString(now) \o ".plist"

\* Lines 277-280: the base of the URLs.
base_url_of(url_root) ==
    IF startswith(url_root, "http://") THEN replace(url_root, "http://", "https://")
    ELSE url_root

\* Lines 259-269: copy the signed archive to /tmp.  A copy that raises is
\* taken to leave no file behind.
PublishIpa(r) ==
    /\ pc[r] = "publish"
    /\ LET name == signed_name(appinfo[r].bundle_id, time)
           copied == Append(log[r], "Signed IPA saved to: /tmp/" \o name)
       IN  \/ \* shutil.copy2 returns
              /\ permanent' = write_file(permanent, name, output[r])
              /\ written' = [written EXCEPT ![r] = @ \cup {name}]
              /\ signed_filename' = [signed_filename EXCEPT ![r] = name]
              /\ pc' = [pc EXCEPT ![r] = "manifest"]
              /\ log' = [log EXCEPT ![r] = copied]
              /\ UNCHANGED <<resp, tmpdirs, rmtreeCalls, io_error>>
           \/ \* shutil.copy2 raises (the destination cannot be opened)
              /\ Raise(r, "[Errno 13] Permission denied", log[r])
              /\ io_error' = [io_error EXCEPT ![r] = "copy"]
              /\ signed_filename' = [signed_filename EXCEPT ![r] = name]
              /\ UNCHANGED <<permanent, written>>
    /\ UNCHANGED <<req, tmpdir_path, appinfo, output, zsignCalls, signer, time, dl>>

\* Lines 271-311: write the manifest to /tmp and answer 200.
PublishManifest(r) ==
    /\ pc[r] = "manifest"
    /\ LET bundle_id == appinfo[r].bundle_id
           app_name == appinfo[r].name
           manifest_filename == manifest_name(bundle_id, time)
           base_url == base_url_of(req[r].url_root)
           direct_ipa_url == base_url \o "download/" \o signed_filename[r]
           local_manifest_url == base_url \o "download/" \o manifest_filename
           manifest_content == generate_manifest(bundle_id, app_name, direct_ipa_url)
           itms_services_url ==
               "itms-services://?action=download-manifest&url=" \o local_manifest_url
           urls == Append(log[r], "Using local URLs for OTA - Base URL: " \o base_url)
       IN  \/ \* open and write succeed
              /\ permanent' = write_file(permanent, manifest_filename, manifest_content)
              /\ written' = [written EXCEPT ![r] = @ \cup {manifest_filename}]
              /\ UNCHANGED io_error
              /\ Return(r, OkResponse(itms_services_url, local_manifest_url,
                                      direct_ipa_url, app_name, bundle_id),
                        Append(urls, "ITMS services URL: " \o itms_services_url))
           \/ \* open raises (the file cannot be created)
              /\ Raise(r, "[Errno 13] Permission denied", urls)
              /\ io_error' = [io_error EXCEPT ![r] = "write"]
              /\ UNCHANGED <<permanent, written>>
    /\ UNCHANGED <<reqLocals, zsignCalls, signer, time, dl>>

\* The wall clock passes a second boundary.
Tick ==
    /\ time < MaxTime
    /\ time' = time + 1
    /\ UNCHANGED <<pc, reqLocals, resp, log, rmtreeCalls, zsignCalls, signer, io_error,
                   written, tmpdirs, permanent, dl>>

\* ------------------------------------------------------------------------
\* GET /download/<filename>: download_file
\* ------------------------------------------------------------------------

\* os.path.exists(os.path.join('/tmp', filename)); the working directories
\* of mkdtemp are entries of /tmp too.
exists(filename) ==
    filename \in DOMAIN permanent \/ ("/tmp/" \o filename) \in tmpdirs

\* abort(code): raises the HTTPException of that code.
Abort(filename, code) ==
    [raised |-> TRUE, filename |-> filename, status |-> code, mimetype |-> None,
     as_attachment |-> FALSE, content |-> None]

\* send_file(file_path, as_attachment=..., mimetype=...)
send_file(filename, as_attachment, mimetype) ==
    [raised |-> FALSE, filename |-> filename, status |-> 200, mimetype |-> mimetype,
     as_attachment |-> as_attachment, content |-> permanent[filename]]

\* The body of the try: of download_file.
download_try(filename) ==
    IF ~exists(filename) THEN Abort(filename, 404)
    ELSE IF endswith(filename, ".plist") THEN send_file(filename, FALSE, "text/xml")
    ELSE IF endswith(filename, ".ipa")
         THEN send_file(filename, TRUE, "application/octet-stream")
    ELSE Abort(filename, 400)

\* download_file: except Exception: catches what the body raises, the
\* HTTPException of abort(404) and abort(400) included, and aborts with 500.
download_file(filename) ==
    LET r == download_try(filename)
        out == IF r.raised THEN Abort(filename, 500) ELSE r
    IN  [filename |-> out.filename, status |-> out.status, mimetype |-> out.mimetype,
         as_attachment |-> out.as_attachment, content |-> out.content]

\* Names clients ask for besides the files of /tmp.
ProbeNames == {"missing.ipa", "report.txt", "ios_signer_1"}

Download ==
    /\ \E filename \in DOMAIN permanent \cup ProbeNames : dl' = download_file(filename)
    /\ UNCHANGED <<pc, reqLocals, resp, log, rmtreeCalls, zsignCalls, signer, io_error,
                   written, tmpdirs, permanent, time>>

\* ------------------------------------------------------------------------
\* Specification
\* ------------------------------------------------------------------------

Next ==
    \/ \E r \in Requests : Validate(r)
    \/ \E r \in Requests : Stage(r)
    \/ \E r \in Requests : Extract(r)
    \/ \E r \in Requests : Sign(r)
    \/ \E r \in Requests : PublishIpa(r)
    \/ \E r \in Requests : PublishManifest(r)
    \/ Tick
    \/ Download

Spec == Init /\ [][Next]_vars

\* ------------------------------------------------------------------------
\* Properties
\* ------------------------------------------------------------------------

\* The request has been received.
Received(r) == pc[r] # "idle"

\* The call has answered.
Done(r) == pc[r] = "done"

\* A field is missing, a file has an empty filename, or a filename lacks its
\* literal suffix.
FailsValidation(q) ==
    \/ ~q.ipa.present \/ ~q.p12.present \/ ~q.provision.present
    \/ q.password = None \/ q.password = ""
    \/ q.ipa.filename = "" \/ q.p12.filename = "" \/ q.provision.filename = ""
    \/ ~endswith(q.ipa.filename, ".ipa")
    \/ ~endswith(q.p12.filename, ".p12")
    \/ ~endswith(q.provision.filename, ".mobileprovision")

\* The archive has no Payload directory, no .app entry in it, or no readable
\* Info.plist in that entry.
LacksApp(a) ==
    \/ ~a.isZip \/ ~a.hasPayload
    \/ \A i \in 1..Len(a.payload) : ~endswith(a.payload[i], ".app")
    \/ ~a.plist.exists \/ ~a.plist.wellFormed

\* The last path segment of a URL.
FileOf(url) ==
    LET slashes == {i \in 1..Len(url) : SubSeq(url, i, i) = "/"}
        last == CHOOSE i \in slashes : \A j \in slashes : j <= i
    IN  SubSeq(url, last + 1, Len(url))

\* A download_file call has just answered (the step changed dl).
Downloaded == dl' # dl

\* C1: a download of a filename for which /tmp holds no file answers 404,
\* whatever the suffix; never 200 or 500.
C1_MissingFileIs404 ==
    [][(Downloaded /\ ~exists(dl'.filename)) => dl'.status = 404]_vars

\* C2: a download of a filename whose suffix is neither .ipa nor .plist
\* answers 400, also when the file exists; 200 is answered only for .plist,
\* inline as XML, and for .ipa, as an attachment.
C2_UnsupportedSuffixIs400 ==
    [][Downloaded =>
        /\ (~endswith(dl'.filename, ".ipa") /\ ~endswith(dl'.filename, ".plist"))
              => dl'.status = 400
        /\ dl'.status = 200 =>
              \/ endswith(dl'.filename, ".plist") /\ ~dl'.as_attachment
                    /\ dl'.mimetype = "text/xml"
              \/ endswith(dl'.filename, ".ipa") /\ dl'.as_attachment]_vars

\* C3: no log entry written by sign_ipa contains the submitted password.
C3_PasswordNeverLogged ==
    \A r \in Requests :
        (Received(r) /\ Truthy(req[r].password)) =>
            \A i \in 1..Len(log[r]) : ~Contains(log[r][i], req[r].password)

\* C4: a call that created a working directory has called rmtree on it
\* exactly once when it answers.
C4_ReleasedExactlyOnce ==
    \A r \in Requests : (Done(r) /\ tmpdir_path[r] # None) => rmtreeCalls[r] = 1

\* C5: a request that fails validation is answered 400 with an error body in
\* the step that receives it, and that step creates no working directory and
\* leaves /tmp as it was.
C5_InvalidRequestIs400 ==
    /\ [](\A r \in Requests :
            (Received(r) /\ FailsValidation(req[r])) =>
                /\ Done(r)
                /\ resp[r].status = 400
                /\ Truthy(resp[r].error)
                /\ tmpdir_path[r] = None
                /\ mkdtemp(r) \notin tmpdirs
                /\ written[r] = {}
                /\ rmtreeCalls[r] = 0 /\ zsignCalls[r] = 0)
    /\ [][\A r \in Requests :
            (~Received(r) /\ Received(r)' /\ FailsValidation(req'[r])) =>
                (tmpdirs' = tmpdirs /\ permanent' = permanent)]_vars

C5_Witness ==
    \E r \in Requests :
        /\ Done(r)
        /\ req[r].p12.filename = "cert.pfx"
        /\ resp[r].status = 400
        /\ resp[r].error = "Certificate must have .p12 extension"

\* C6: when the signer exits nonzero the call answers 500 with the captured
\* output as details, has run the signer exactly once, and has written no
\* file to /tmp.
C6_SignerFailureIs500 ==
    \A r \in Requests :
        (signer[r].ran /\ signer[r].returncode # 0) =>
            /\ Done(r)
            /\ resp[r].status = 500
            /\ resp[r].error = "Signing failed"
            /\ resp[r].details = signer[r].output
            /\ zsignCalls[r] = 1
            /\ written[r] = {}

C6_Witness ==
    \E r \in Requests :
        /\ Done(r)
        /\ signer[r] = Exited(1, "")
        /\ resp[r].status = 500
        /\ resp[r].details = ""
        /\ zsignCalls[r] = 1

\* C7 as stated: every request that passes validation with an archive lacking
\* Payload, an .app entry or a readable Info.plist is answered 500 with the
\* extraction-failure message, without the signer run or a file written.
C7_Original ==
    \A r \in Requests :
        (Done(r) /\ ~FailsValidation(req[r]) /\ LacksApp(req[r].ipa.content)) =>
            /\ resp[r].status = 500
            /\ resp[r].error = "Failed to extract bundle id and app name"
            /\ zsignCalls[r] = 0
            /\ written[r] = {}

\* C7 amended: the same for the requests whose working directory was created
\* and whose uploads were saved (no system call of the Stage step raised).
C7_ExtractionFailureIs500 ==
    \A r \in Requests :
        (Received(r) /\ ~FailsValidation(req[r]) /\ LacksApp(req[r].ipa.content)) =>
            /\ pc[r] \in {"stage", "extract", "done"}
            /\ zsignCalls[r] = 0
            /\ ~signer[r].ran
            /\ written[r] = {}
            /\ (Done(r) /\ io_error[r] = None) =>
                  /\ resp[r].status = 500
                  /\ resp[r].error = "Failed to extract bundle id and app name"
                  /\ Truthy(resp[r].details)

C7_Witness ==
    \E r \in Requests :
        /\ Done(r)
        /\ req[r].ipa.content.isZip /\ ~req[r].ipa.content.hasPayload
        /\ io_error[r] = None
        /\ resp[r].status = 500
        /\ resp[r].error = "Failed to extract bundle id and app name"

\* What the 200 response of C8 promises, in the present state.
SignedAndServed(r) ==
    /\ resp[r].status = 200
    /\ Truthy(resp[r].itms_services_url)
    /\ Truthy(resp[r].manifest_url)
    /\ Truthy(resp[r].ipa_url)
    /\ resp[r].app_info.bundle_id = req[r].ipa.content.plist.CFBundleIdentifier
    /\ \A url \in {resp[r].ipa_url, resp[r].manifest_url} :
          /\ FileOf(url) \in DOMAIN permanent
          /\ download_file(FileOf(url)).status = 200

\* C8 as stated: every request whose signer exits 0 is answered 200 with the
\* three URLs and the archive's identifier, and both files are in /tmp and
\* download with 200.
C8_Original ==
    \A r \in Requests :
        (Done(r) /\ signer[r].ran /\ signer[r].returncode = 0) => SignedAndServed(r)

\* C8 amended: the same for the requests whose Publish stage raised no
\* filesystem error; and every later download of the two files answers 200.
C8_SignedIsServed ==
    /\ [](\A r \in Requests :
            (Done(r) /\ signer[r].ran /\ signer[r].returncode = 0 /\ io_error[r] = None)
                => SignedAndServed(r))
    /\ [][\A r \in Requests :
            (Downloaded /\ resp[r].status = 200
               /\ dl'.filename \in {FileOf(resp[r].ipa_url), FileOf(resp[r].manifest_url)})
                => dl'.status = 200]_vars

C8_Witness ==
    \E r \in Requests :
        /\ Done(r)
        /\ resp[r].status = 200
        /\ resp[r].app_info.bundle_id = "com.example.demo"
        /\ dl.filename = FileOf(resp[r].manifest_url)
        /\ dl.status = 200
        /\ dl.mimetype = "text/xml"

\* C9: a file of /tmp, once written, keeps its bytes: every publish writes a
\* name no earlier publish wrote.
C9_NeverMutated ==
    [][\A f \in DOMAIN permanent :
          f \in DOMAIN permanent' /\ permanent'[f] = permanent[f]]_vars

\* C10: a call that answers anything but 200 has written no file to /tmp.
C10_AllOrNothing ==
    \A r \in Requests : (Done(r) /\ resp[r].status # 200) => written[r] = {}

====
